---------------------------- MODULE Spec2Model ----------------------------
(***************************************************************************)
(* A model of notapy/converter.py: the row <-> element codec, the          *)
(* single-file conversions, the MIDI combiner and the directory-mode batch *)
(* entry points, over a small file system.                                 *)
(*                                                                         *)
(* Times (offsets, quarter lengths) are integers counting 1/10000 of a     *)
(* quarter note, so that round(x, 3) is a rounding to a multiple of 10.    *)
(* A note_name string is the sequence of its tokens: pitch spellings and   *)
(* the separator ",".  A file name is the sequence of its tokens too, an   *)
(* extension such as ".mid" being one token.                               *)
(***************************************************************************)
EXTENDS Integers, Sequences, FiniteSets, TLC

VARIABLES element, row, rebuilt, fs, dirOrder, log, last

vars == <<element, row, rebuilt, fs, dirOrder, log, last>>

(***************************************************************************)
(* Bounds of the model.                                                    *)
(***************************************************************************)
MaxChord == 3
MaxEvents == 3
MaxRows == 3
MaxPaths == 3
MaxCalls == 2

(***************************************************************************)
(* Generic helpers.                                                        *)
(***************************************************************************)
Range(s) == {s[i] : i \in 1..Len(s)}

SeqsUpTo(S, lo, hi) == UNION {[1..n -> S] : n \in lo..hi}

Abs(x) == IF x < 0 THEN -x ELSE x

(***************************************************************************)
(* music21 elements, as far as the converter reads them.                   *)
(***************************************************************************)
None == -1

PitchNames == {"C4", "E-4", "G4"}

Offsets == {0, 3333, 10005, 40000}

QuarterLengths == {0, 2500, 10015, 20000}

Velocities == {None, 0, 64, 127}

Lyrics == {"", "la"}

\* Rest has no volume attribute; every NotRest (Note, Chord, Unpitched,
\* PercussionChord) has one.
HasVolume(cls) == cls # "Rest"

PitchesOf(cls) ==
    CASE cls = "Rest" -> {<<>>}
      [] cls \in {"Note", "Unpitched", "GeneralNote"} -> SeqsUpTo(PitchNames, 1, 1)
      [] cls \in {"Chord", "PercussionChord"} -> SeqsUpTo(PitchNames, 2, MaxChord)

\* "GeneralNote" stands for a note-like element that is none of the others: it
\* has a volume but no notes attribute.
Classes == {"Note", "Chord", "Rest", "Unpitched", "PercussionChord", "GeneralNote"}

ElementsOf(cls) ==
    {[cls |-> cls, pitches |-> p, offset |-> o, quarterLength |-> q,
      velocity |-> v, lyric |-> l, isStream |-> FALSE] :
        p \in PitchesOf(cls), o \in Offsets, q \in QuarterLengths,
        v \in (IF HasVolume(cls) THEN Velocities ELSE {None}), l \in Lyrics}

Elements == UNION {ElementsOf(cls) : cls \in Classes}

(***************************************************************************)
(* Strings and numbers.                                                    *)
(***************************************************************************)
\* ",".join(names)
RECURSIVE Join(_)
Join(names) ==
    IF Len(names) = 0 THEN <<>>
    ELSE IF Len(names) = 1 THEN <<names[1]>>
    ELSE <<names[1], ",">> \o Join(Tail(names))

\* s.split(","): the tokens between the separators
RECURSIVE Split(_)
Split(s) ==
    IF Len(s) = 0 THEN <<>>
    ELSE IF s[1] = "," THEN Split(Tail(s))
    ELSE <<s[1]>> \o Split(Tail(s))

\* round(x, 3): to the nearest multiple of 10 units, a tie going to the even
\* thousandth.
Round3(x) ==
    LET lo == (x \div 10) * 10
        r  == x % 10
    IN  IF r < 5 THEN lo
        ELSE IF r > 5 THEN lo + 10
        ELSE IF (lo \div 10) % 2 = 0 THEN lo ELSE lo + 10

(***************************************************************************)
(* The codec.                                                              *)
(***************************************************************************)
NoteNameOf(e) ==
    IF e.cls = "Rest" THEN <<"Rest">>
    ELSE IF e.cls = "Note" THEN <<e.pitches[1]>>
    ELSE IF e.cls = "Chord" THEN Join(e.pitches)
    ELSE IF e.cls = "Unpitched" THEN <<e.pitches[1]>>
    ELSE Join(e.pitches)

RowVelocity(e) == IF HasVolume(e.cls) THEN e.velocity ELSE None

NoRow == [note_name |-> <<>>, start_time |-> 0, duration |-> 0,
          velocity |-> None, tempo |-> 0]

\* _serialize_element_to_dict(element, additional_fields): the row, or the
\* exception raised (element.notes on an element that has none).
_serialize_element_to_dict(e, tempo) ==
    IF e.cls = "GeneralNote"
    THEN [raised |-> TRUE, row |-> NoRow]
    ELSE [raised |-> FALSE,
          row |-> [note_name  |-> NoteNameOf(e),
                   start_time |-> Round3(e.offset),
                   duration   |-> Round3(e.quarterLength),
                   velocity   |-> RowVelocity(e),
                   tempo      |-> tempo]]

\* music21.pitch.Pitch(p) raises on a spelling it cannot parse.
ValidPitch(p) == p \in PitchNames

NoElement == [cls |-> "none"]

Raised == [raised |-> TRUE, element |-> NoElement]

Built(cls, pitches, r, velocity) ==
    [raised  |-> FALSE,
     element |-> [cls |-> cls, pitches |-> pitches, offset |-> r.start_time,
                  quarterLength |-> r.duration, velocity |-> velocity,
                  lyric |-> "", isStream |-> FALSE]]

\* A Chord is built from pitches and a duration only: its velocity stays unset.
ChordVelocity(r) == None

\* _deserialize_row_to_element(row): the element, or the exception raised.
_deserialize_row_to_element(r) ==
    IF r.note_name = <<"Rest">>
    THEN Built("Rest", <<>>, r, None)
    ELSE IF "," \in Range(r.note_name)
    THEN IF \A p \in Range(Split(r.note_name)) : ValidPitch(p)
         THEN Built("Chord", Split(r.note_name), r, ChordVelocity(r))
         ELSE Raised
    ELSE IF Len(r.note_name) = 1 /\ ValidPitch(r.note_name[1])
    THEN Built("Note", r.note_name, r, r.velocity)
    ELSE Raised

(***************************************************************************)
(* Files.  A file holds a MIDI stream (its tempo marks and the elements of *)
(* its flattened traversal), a table, or bytes neither reader accepts.     *)
(***************************************************************************)
MidiFile(tempos, elements) ==
    [kind |-> "midi", tempos |-> tempos, elements |-> elements, rows |-> <<>>]

CsvFile(rows) ==
    [kind |-> "csv", tempos |-> <<>>, elements |-> <<>>, rows |-> rows]

Corrupt == [kind |-> "corrupt", tempos |-> <<>>, elements |-> <<>>, rows |-> <<>>]

\* A path is the directory followed by the tokens of the file name; the
\* path of a directory is the directory alone.
PathJoin(dir, name) == dir \o name

IsDir(path) == Len(path) = 1

Basename(path) == Tail(path)

Exists(fsys, path) == Basename(path) \in DOMAIN fsys[path[1]]

FileAt(fsys, path) == fsys[path[1]][Basename(path)]

\* Writing a file creates it or replaces its content.
WriteFile(fsys, path, content) ==
    [fsys EXCEPT ![path[1]] =
        [n \in (DOMAIN @) \cup {Basename(path)} |->
            IF n = Basename(path) THEN content ELSE @[n]]]

\* name.endswith(ext)
EndsWith(name, ext) == Len(name) > 0 /\ name[Len(name)] = ext

\* name.replace(old, new): every occurrence
Replace(name, old, new) ==
    [i \in 1..Len(name) |-> IF name[i] = old THEN new ELSE name[i]]

\* Where the file system lists a name: by the place of its first token in
\* the file system's order.
Rank(name, order) ==
    IF \E i \in 1..Len(order) : order[i] = name[1]
    THEN CHOOSE i \in 1..Len(order) : order[i] = name[1]
    ELSE Len(order) + 1

RECURSIVE ByRank(_, _)
ByRank(names, order) ==
    IF names = {} THEN <<>>
    ELSE LET first == CHOOSE n \in names :
                         \A m \in names : Rank(n, order) <= Rank(m, order)
         IN  <<first>> \o ByRank(names \ {first}, order)

\* [f for f in os.listdir(dir) if f.endswith(ext)]: the order of the listing
\* is the file system's, not the program's.
Listing(fsys, dir, ext, order) ==
    ByRank({n \in DOMAIN fsys[dir] : EndsWith(n, ext)}, order)

(***************************************************************************)
(* Logging.                                                                *)
(***************************************************************************)
NoPath == <<>>

LogError(msg, path) == [level |-> "ERROR", msg |-> msg, path |-> path]

LogInfo(msg, path) == [level |-> "INFO", msg |-> msg, path |-> path]

(***************************************************************************)
(* _midi_to_csv: one MIDI file to one CSV file.                            *)
(***************************************************************************)
\* midi_file.open / read / midiFileToStream(...).flat: the stream, or raises.
ReadMidi(fsys, path) ==
    IF Exists(fsys, path) /\ FileAt(fsys, path).kind = "midi"
    THEN [raised |-> FALSE, tempos |-> FileAt(fsys, path).tempos,
          elements |-> FileAt(fsys, path).elements]
    ELSE [raised |-> TRUE, tempos |-> <<>>, elements |-> <<>>]

DefaultTempo == 120

\* Mutant of NoteTempo: the default is used whatever the stream says.
NoteTempoAlwaysDefault(tempos) == DefaultTempo

\* metronomeMarkBoundaries()[0][2].number if there is a boundary, else 120
NoteTempo(tempos) == IF Len(tempos) > 0 THEN tempos[1] ELSE DefaultTempo

\* Mutant of Kept: the lyric test is dropped.
KeptWithLyric(e) == ~e.isStream

\* not element.isStream and not element.lyric
Kept(e) == ~e.isStream /\ e.lyric = ""

\* The for loop over stream.recurse().notesAndRests: df grows by one row per
\* kept element; an exception leaves the loop with the rows built so far.
RECURSIVE EncodeElements(_, _, _)
EncodeElements(elems, tempo, df) ==
    IF elems = <<>> THEN [raised |-> FALSE, rows |-> df]
    ELSE IF ~Kept(Head(elems)) THEN EncodeElements(Tail(elems), tempo, df)
    ELSE LET r == _serialize_element_to_dict(Head(elems), tempo)
         IN  IF r.raised THEN [raised |-> TRUE, rows |-> df]
             ELSE EncodeElements(Tail(elems), tempo, Append(df, r.row))

\* What the end of the try block does with the table: df.to_csv and the
\* info line run only when nothing was raised before them.
EmitCsv(fsys, output_csv_path, enc) ==
    IF enc.raised
    THEN [raised |-> TRUE, fs |-> fsys, log |-> <<>>]
    ELSE [raised |-> FALSE,
          fs  |-> WriteFile(fsys, output_csv_path, CsvFile(enc.rows)),
          log |-> <<LogInfo("MIDI to CSV conversion complete", output_csv_path)>>]

\* The try block of _midi_to_csv.
MidiToCsvTry(fsys, midi_file_path, output_csv_path) ==
    LET stream == ReadMidi(fsys, midi_file_path)
    IN  IF stream.raised
        THEN [raised |-> TRUE, fs |-> fsys, log |-> <<>>]
        ELSE EmitCsv(fsys, output_csv_path,
                     EncodeElements(stream.elements, NoteTempo(stream.tempos), <<>>))

\* except Exception as e: logging.error(...)
Caught(t, msg) ==
    IF t.raised
    THEN [raised |-> FALSE, fs |-> t.fs, log |-> t.log \o <<LogError(msg, NoPath)>>]
    ELSE t

\* Mutant of _midi_to_csv: the exception is not caught.
MidiToCsvUncaught(fsys, midi_file_path, output_csv_path) ==
    MidiToCsvTry(fsys, midi_file_path, output_csv_path)

_midi_to_csv(fsys, midi_file_path, output_csv_path) ==
    Caught(MidiToCsvTry(fsys, midi_file_path, output_csv_path),
           "Failed to convert MIDI to CSV")

(***************************************************************************)
(* _csv_to_midi: one CSV file to one MIDI file.                            *)
(***************************************************************************)
\* pd.read_csv: the rows, or raises.
ReadCsv(fsys, path) ==
    IF Exists(fsys, path) /\ FileAt(fsys, path).kind = "csv"
    THEN [raised |-> FALSE, rows |-> FileAt(fsys, path).rows]
    ELSE [raised |-> TRUE, rows |-> <<>>]

\* Mutant of TempoMarks: the tempo is read from the last row.
TempoMarksLastRow(rows) == IF Len(rows) > 0 THEN <<rows[Len(rows)].tempo>> ELSE <<>>

\* if not df.empty: stream.append(MetronomeMark(number=df.iloc[0]['tempo']))
TempoMarks(rows) == IF Len(rows) > 0 THEN <<rows[1].tempo>> ELSE <<>>

\* stream.insert(element): the element goes to its own offset, after the
\* elements already at that offset.
StreamInsert(elems, e) ==
    LET n == Cardinality({i \in 1..Len(elems) : elems[i].offset <= e.offset})
    IN  SubSeq(elems, 1, n) \o <<e>> \o SubSeq(elems, n + 1, Len(elems))

\* The for loop over df.iterrows().
RECURSIVE DecodeRows(_, _)
DecodeRows(rows, elems) ==
    IF rows = <<>> THEN [raised |-> FALSE, elements |-> elems]
    ELSE LET r == _deserialize_row_to_element(Head(rows))
         IN  IF r.raised THEN [raised |-> TRUE, elements |-> elems]
             ELSE DecodeRows(Tail(rows), StreamInsert(elems, r.element))

\* Mutant of EmitMidi: the stream built so far is written even after an
\* exception (a write placed in a finally clause).
EmitMidiPartial(fsys, output_midi_path, tempos, dec) ==
    [raised |-> dec.raised,
     fs  |-> WriteFile(fsys, output_midi_path, MidiFile(tempos, dec.elements)),
     log |-> IF dec.raised THEN <<>>
             ELSE <<LogInfo("CSV to MIDI conversion complete", output_midi_path)>>]

\* stream.write('midi', path) and the info line, reached only when nothing
\* was raised before them.
EmitMidi(fsys, output_midi_path, tempos, dec) ==
    IF dec.raised
    THEN [raised |-> TRUE, fs |-> fsys, log |-> <<>>]
    ELSE [raised |-> FALSE,
          fs  |-> WriteFile(fsys, output_midi_path, MidiFile(tempos, dec.elements)),
          log |-> <<LogInfo("CSV to MIDI conversion complete", output_midi_path)>>]

\* The try block of _csv_to_midi.
CsvToMidiTry(fsys, csv_file_path, output_midi_path) ==
    LET df == ReadCsv(fsys, csv_file_path)
    IN  IF df.raised
        THEN [raised |-> TRUE, fs |-> fsys, log |-> <<>>]
        ELSE EmitMidi(fsys, output_midi_path, TempoMarks(df.rows),
                      DecodeRows(df.rows, <<>>))

_csv_to_midi(fsys, csv_file_path, output_midi_path) ==
    Caught(CsvToMidiTry(fsys, csv_file_path, output_midi_path),
           "Failed to convert CSV to MIDI")

(***************************************************************************)
(* _combine_midis: the streams of several MIDI files, one after another.   *)
(***************************************************************************)
Max(S) == CHOOSE x \in S : \A y \in S : y <= x

\* stream.highestTime: where the last element ends, 0 for an empty stream.
HighestTime(elems) ==
    Max({0} \cup {elems[i].offset + elems[i].quarterLength : i \in 1..Len(elems)})

EmptyStream == [tempos |-> <<>>, elements |-> <<>>, highestTime |-> 0]

\* Mutant of StreamAppend: the stream is inserted at offset 0.
StreamAppendAtZero(combined, stream) ==
    [tempos      |-> combined.tempos \o stream.tempos,
     elements    |-> combined.elements \o stream.elements,
     highestTime |-> Max({combined.highestTime, HighestTime(stream.elements)})]

\* combined_stream.append(stream): the stream is placed at the container's
\* highest time, which then moves on by the stream's own length.  The
\* elements are kept as the container's flattened view shows them.
StreamAppend(combined, stream) ==
    [tempos      |-> combined.tempos \o stream.tempos,
     elements    |-> combined.elements \o
                     [i \in 1..Len(stream.elements) |->
                        [stream.elements[i] EXCEPT
                            !.offset = @ + combined.highestTime]],
     highestTime |-> combined.highestTime + HighestTime(stream.elements)]

\* The for loop of _combine_midis, with its inner try / except.
RECURSIVE CombineEach(_, _, _, _)
CombineEach(fsys, midi_file_paths, combined, lg) ==
    IF midi_file_paths = <<>> THEN [stream |-> combined, log |-> lg]
    ELSE LET stream == ReadMidi(fsys, Head(midi_file_paths))
         IN  IF stream.raised
             THEN CombineEach(fsys, Tail(midi_file_paths), combined,
                      Append(lg, LogError("Failed to process MIDI file",
                                          Head(midi_file_paths))))
             ELSE CombineEach(fsys, Tail(midi_file_paths),
                      StreamAppend(combined, stream), lg)

\* Mutant of _combine_midis: without the inner try, the first file that fails
\* to decode ends the combination and nothing is written.
CombineMidisNoInnerTry(fsys, midi_file_paths, output_midi_path) ==
    LET done == CombineEach(fsys, midi_file_paths, EmptyStream, <<>>)
    IN  IF done.log # <<>>
        THEN [raised |-> FALSE, fs |-> fsys,
              log |-> <<LogError("Failed to combine MIDI files", NoPath)>>]
        ELSE [raised |-> FALSE,
              fs  |-> WriteFile(fsys, output_midi_path,
                                MidiFile(done.stream.tempos, done.stream.elements)),
              log |-> <<LogInfo("Combined MIDI file created", output_midi_path)>>]

_combine_midis(fsys, midi_file_paths, output_midi_path) ==
    LET done == CombineEach(fsys, midi_file_paths, EmptyStream, <<>>)
    IN  [raised |-> FALSE,
         fs  |-> WriteFile(fsys, output_midi_path,
                           MidiFile(done.stream.tempos, done.stream.elements)),
         log |-> Append(done.log,
                        LogInfo("Combined MIDI file created", output_midi_path))]

(***************************************************************************)
(* The public entry points.  order is the order in which the file system   *)
(* lists names.                                                            *)
(***************************************************************************)
Then(t, r) == [raised |-> r.raised, fs |-> r.fs, log |-> t.log \o r.log]

Started(fsys) == [raised |-> FALSE, fs |-> fsys, log |-> <<>>]

\* for midi_file in midi_files: _midi_to_csv(midi_file, csv_output_path)
RECURSIVE MidiToCsvEach(_, _, _, _)
MidiToCsvEach(t, names, input_path, output_path) ==
    IF t.raised \/ names = <<>> THEN t
    ELSE MidiToCsvEach(
            Then(t, _midi_to_csv(t.fs, PathJoin(input_path, Head(names)),
                     PathJoin(output_path, Replace(Head(names), ".mid", ".csv")))),
            Tail(names), input_path, output_path)

RECURSIVE ConcatRows(_)
ConcatRows(tables) ==
    IF tables = <<>> THEN <<>> ELSE Head(tables) \o ConcatRows(Tail(tables))

\* The combine step of midi_to_csv: every .csv the output directory lists is
\* read and the tables are concatenated (pd.concat raises on an empty list).
CombineCsvs(t, output_path, names) ==
    LET dfs == [i \in 1..Len(names) |-> ReadCsv(t.fs, PathJoin(output_path, names[i]))]
        combined_csv_path == PathJoin(output_path, <<"combined", ".csv">>)
    IN  IF names = <<>> \/ \E i \in 1..Len(names) : dfs[i].raised
        THEN [raised |-> TRUE, fs |-> t.fs, log |-> t.log]
        ELSE [raised |-> FALSE,
              fs  |-> WriteFile(t.fs, combined_csv_path,
                         CsvFile(ConcatRows([i \in 1..Len(names) |-> dfs[i].rows]))),
              log |-> Append(t.log, LogInfo("Combined CSV file created",
                                            combined_csv_path))]

\* The directory branch of midi_to_csv.
MidiToCsvDir(fsys, input_path, output_path, combine_output, order) ==
    LET midi_files == Listing(fsys, input_path[1], ".mid", order)
        each == MidiToCsvEach(Started(fsys), midi_files, input_path, output_path)
    IN  IF ~each.raised /\ combine_output /\ Len(midi_files) > 1
        THEN CombineCsvs(each, output_path,
                         Listing(each.fs, output_path[1], ".csv", order))
        ELSE each

midi_to_csv(fsys, input_path, output_path, combine_output, order) ==
    Caught(IF IsDir(input_path)
           THEN MidiToCsvDir(fsys, input_path, output_path, combine_output, order)
           ELSE _midi_to_csv(fsys, input_path, output_path),
           "Error in midi_to_csv")

\* for csv_file in csv_files: _csv_to_midi(csv_file, midi_output_path)
RECURSIVE CsvToMidiEach(_, _, _, _)
CsvToMidiEach(t, names, input_path, output_path) ==
    IF t.raised \/ names = <<>> THEN t
    ELSE CsvToMidiEach(
            Then(t, _csv_to_midi(t.fs, PathJoin(input_path, Head(names)),
                     PathJoin(output_path, Replace(Head(names), ".csv", ".mid")))),
            Tail(names), input_path, output_path)

\* The combine step of csv_to_midi: _combine_midis over every .mid the output
\* directory lists.
CombineMids(t, output_path, names) ==
    Then(t, _combine_midis(t.fs,
                [i \in 1..Len(names) |-> PathJoin(output_path, names[i])],
                PathJoin(output_path, <<"combined", ".mid">>)))

\* The directory branch of csv_to_midi.
CsvToMidiDir(fsys, input_path, output_path, combine_output, order) ==
    LET csv_files == Listing(fsys, input_path[1], ".csv", order)
        each == CsvToMidiEach(Started(fsys), csv_files, input_path, output_path)
    IN  IF ~each.raised /\ combine_output /\ Len(csv_files) > 1
        THEN CombineMids(each, output_path,
                         Listing(each.fs, output_path[1], ".mid", order))
        ELSE each

csv_to_midi(fsys, input_path, output_path, combine_output, order) ==
    Caught(IF IsDir(input_path)
           THEN CsvToMidiDir(fsys, input_path, output_path, combine_output, order)
           ELSE _csv_to_midi(fsys, input_path, output_path),
           "Error in csv_to_midi")

\* combine_midis(input_directory, output_midi_path)
combine_midis(fsys, input_directory, output_midi_path, order) ==
    LET midi_files == Listing(fsys, input_directory[1], ".mid", order)
    IN  Caught(_combine_midis(fsys,
                  [i \in 1..Len(midi_files) |-> PathJoin(input_directory, midi_files[i])],
                  output_midi_path),
               "Error in combine_midis")

(***************************************************************************)
(* The state: the element, row and rebuilt element of a codec round trip;  *)
(* the file system; the log; and the last call made (its arguments and the *)
(* file system and log length it started from).                            *)
(***************************************************************************)
DATA_INPUT_MIDI == <<"data/input-midi">>
DATA_OUTPUT_CSV == <<"data/output-csv">>
DATA_OUTPUT_MIDI == <<"data/output-midi">>

Dirs == {DATA_INPUT_MIDI[1], DATA_OUTPUT_CSV[1], DATA_OUTPUT_MIDI[1]}

EmptyDir == [n \in {} |-> Corrupt]

EmptyFs == [d \in Dirs |-> EmptyDir]

OneFile(name, content) == [n \in {name} |-> content]

NoCall ==
    [op |-> "none", input |-> <<>>, output |-> <<>>, combine |-> FALSE,
     paths |-> <<>>, pre |-> EmptyFs, logStart |-> 0, calls |-> 0,
     raised |-> FALSE, prevOp |-> "none", prevCombine |-> FALSE]

\* The record of a call made now; raised tells whether an exception reached
\* the caller, prevOp and prevCombine what the call before it was.
Call(op, input, output, combine, paths) ==
    [op |-> op, input |-> input, output |-> output, combine |-> combine,
     paths |-> paths, pre |-> fs, logStart |-> Len(log), calls |-> last.calls + 1,
     raised |-> FALSE, prevOp |-> last.op, prevCombine |-> last.combine]

\* What the last call logged.
Logged == SubSeq(log, last.logStart + 1, Len(log))

Errors(lg) == SelectSeq(lg, LAMBDA l : l.level = "ERROR")

Infos(lg) == SelectSeq(lg, LAMBDA l : l.level = "INFO")

Tempos == {90, 140}

\* The orders in which the file system may list the names used.
ListingOrders ==
    {<<"a", "b", "c", "combined", "old", "song">>,
     <<"song", "old", "combined", "c", "b", "a">>,
     <<"b", "old", "a", "combined", "song", "c">>}

(***************************************************************************)
(* Specification SpecCodec: one element is serialized to a row and the row *)
(* is deserialized.                                                        *)
(***************************************************************************)
InitCodec ==
    /\ element \in Elements
    /\ row = <<>>
    /\ rebuilt = <<>>
    /\ fs = EmptyFs
    /\ dirOrder = <<>>
    /\ log = <<>>
    /\ last = NoCall

SerializeElement ==
    /\ row = <<>>
    /\ \E tempo \in Tempos : row' = <<_serialize_element_to_dict(element, tempo)>>
    /\ UNCHANGED <<element, rebuilt, fs, dirOrder, log, last>>

DeserializeRow ==
    /\ row # <<>>
    /\ ~row[1].raised
    /\ rebuilt = <<>>
    /\ rebuilt' = <<_deserialize_row_to_element(row[1].row)>>
    /\ UNCHANGED <<element, row, fs, dirOrder, log, last>>

NextCodec == SerializeElement \/ DeserializeRow

SpecCodec == InitCodec /\ [][NextCodec]_vars

\* C1: for a Note, a Chord of two or more pitches or a Rest, serializing the
\* element and deserializing the row gives an element of the same kind, with
\* the same pitches in the same order, the same start time and duration
\* within 0.001 (10 units of time), and, for a Note or a Chord, the same
\* velocity.
C1_RoundTrip ==
    (rebuilt # <<>> /\ element.cls \in {"Note", "Chord", "Rest"}) =>
        /\ ~rebuilt[1].raised
        /\ rebuilt[1].element.cls = element.cls
        /\ rebuilt[1].element.pitches = element.pitches
        /\ Abs(rebuilt[1].element.offset - element.offset) <= 10
        /\ Abs(rebuilt[1].element.quarterLength - element.quarterLength) <= 10
        /\ (element.cls \in {"Note", "Chord"} =>
                rebuilt[1].element.velocity = element.velocity)

(***************************************************************************)
(* Specification SpecFile: single-file conversions.  A MIDI file is        *)
(* converted to a CSV file, and a CSV file to a MIDI file, each from its   *)
(* own directory to the next; the output may exist already.                *)
(***************************************************************************)
Note(pitch, offset, quarterLength, velocity, lyric) ==
    [cls |-> "Note", pitches |-> <<pitch>>, offset |-> offset,
     quarterLength |-> quarterLength, velocity |-> velocity, lyric |-> lyric,
     isStream |-> FALSE]

SampleElements ==
    {Note("C4", 0, 10000, 64, ""),
     [Note("C4", 0, 20000, 80, "") EXCEPT !.cls = "Chord", !.pitches = <<"C4", "E-4", "G4">>],
     [Note("C4", 10000, 10000, None, "") EXCEPT !.cls = "Rest", !.pitches = <<>>],
     Note("G4", 10000, 10000, 64, "la"),
     [Note("E-4", 20000, 10000, 64, "") EXCEPT !.cls = "GeneralNote"],
     Note("E-4", 23333, 16665, 127, "")}

\* The flattened stream lists its elements by offset.
Sorted(elems) == \A i \in 1..(Len(elems) - 1) : elems[i].offset <= elems[i + 1].offset

SampleStreams ==
    {MidiFile(t, e) : t \in SeqsUpTo(Tempos, 0, 2),
                      e \in {x \in SeqsUpTo(SampleElements, 0, MaxEvents) : Sorted(x)}}

Row(note_name, start_time, duration, velocity, tempo) ==
    [note_name |-> note_name, start_time |-> start_time, duration |-> duration,
     velocity |-> velocity, tempo |-> tempo]

SampleRows ==
    {Row(<<"C4">>, 0, 10000, 64, 90),
     Row(<<"G4">>, 20000, 10000, 64, 140),
     Row(<<"C4", ",", "E-4">>, 10000, 20000, 80, 90),
     Row(<<"Rest">>, 10000, 10000, None, 140),
     Row(<<"H9">>, 0, 10000, 64, 90)}

SampleTables == {CsvFile(r) : r \in SeqsUpTo(SampleRows, 0, MaxRows)}

StaleCsv == CsvFile(<<Row(<<"G4">>, 0, 5000, 1, 60)>>)

StaleMidi == MidiFile(<<60>>, <<Note("G4", 0, 5000, 1, "")>>)

SongMid == <<"song", ".mid">>

SongCsv == <<"song", ".csv">>

InitFile ==
    /\ element = NoElement
    /\ row = <<>>
    /\ rebuilt = <<>>
    /\ dirOrder = <<>>
    /\ log = <<>>
    /\ last = NoCall
    /\ \E midi \in SampleStreams \cup {Corrupt},
          csv \in {EmptyDir} \cup {OneFile(SongCsv, c) : c \in SampleTables \cup {Corrupt, StaleCsv}},
          out \in {EmptyDir, OneFile(SongMid, StaleMidi)} :
          /\ midi = MidiFile(<<>>, <<>>) \/ csv \in {EmptyDir, OneFile(SongCsv, StaleCsv)}
          /\ fs = [d \in Dirs |->
                    IF d = DATA_INPUT_MIDI[1] THEN OneFile(SongMid, midi)
                    ELSE IF d = DATA_OUTPUT_CSV[1] THEN csv
                    ELSE out]

Returned(call, r) ==
    /\ fs' = r.fs
    /\ log' = log \o r.log
    /\ last' = [call EXCEPT !.raised = r.raised]
    /\ UNCHANGED <<element, row, rebuilt, dirOrder>>

\* _midi_to_csv("data/input-midi/song.mid", "data/output-csv/song.csv")
CallMidiToCsvFile ==
    /\ last.calls < MaxCalls
    /\ LET input == PathJoin(DATA_INPUT_MIDI, SongMid)
           output == PathJoin(DATA_OUTPUT_CSV, SongCsv)
       IN  Returned(Call("_midi_to_csv", input, output, FALSE, <<>>),
                    _midi_to_csv(fs, input, output))

\* _csv_to_midi("data/output-csv/song.csv", "data/output-midi/song.mid")
CallCsvToMidiFile ==
    /\ last.calls < MaxCalls
    /\ LET input == PathJoin(DATA_OUTPUT_CSV, SongCsv)
           output == PathJoin(DATA_OUTPUT_MIDI, SongMid)
       IN  Returned(Call("_csv_to_midi", input, output, FALSE, <<>>),
                    _csv_to_midi(fs, input, output))

NextFile == CallMidiToCsvFile \/ CallCsvToMidiFile

SpecFile == InitFile /\ [][NextFile]_vars

Succeeded == Len(Logged) > 0 /\ Errors(Logged) = <<>>

Failed == Errors(Logged) # <<>>

\* C6: when a single-file conversion fails, the call leaves every file as it
\* was (no output is created or modified, so nothing processed before the
\* failure is written) and the failure is logged once, without a retry.
C6_AllOrNothing ==
    (last.op \in {"_midi_to_csv", "_csv_to_midi"} /\ Failed) =>
        /\ fs = last.pre
        /\ Len(Logged) = 1

\* A table whose first row deserializes and whose second does not, over an
\* output file that existed before the call.
C6_Witness ==
    /\ last.op = "_csv_to_midi"
    /\ Failed
    /\ Exists(last.pre, last.input)
    /\ Exists(last.pre, last.output)
    /\ LET rows == FileAt(last.pre, last.input).rows
       IN  /\ Len(rows) >= 2
           /\ ~_deserialize_row_to_element(rows[1]).raised
           /\ _deserialize_row_to_element(rows[2]).raised

\* C7: every row of a table written by _midi_to_csv carries the same tempo:
\* the stream's tempo when it has one, 120 when it has none.
C7_TempoPropagation ==
    (last.op = "_midi_to_csv" /\ Succeeded) =>
        LET marks == FileAt(last.pre, last.input).tempos
            table == FileAt(fs, last.output).rows
        IN  /\ \A i, j \in 1..Len(table) : table[i].tempo = table[j].tempo
            /\ Len(marks) = 1 => \A i \in 1..Len(table) : table[i].tempo = marks[1]
            /\ Len(marks) = 0 => \A i \in 1..Len(table) : table[i].tempo = 120

C7_Witness ==
    /\ last.op = "_midi_to_csv"
    /\ Succeeded
    /\ FileAt(last.pre, last.input).tempos = <<140>>
    /\ Len(FileAt(fs, last.output).rows) >= 2

\* C8: the rows written by _midi_to_csv are, one to one and in traversal
\* order, the elements of the traversal that are no sub-stream and have no
\* lyric text.
C8_FilteredTraversal ==
    (last.op = "_midi_to_csv" /\ Succeeded) =>
        LET events == SelectSeq(FileAt(last.pre, last.input).elements,
                                LAMBDA e : ~e.isStream /\ e.lyric = "")
            table  == FileAt(fs, last.output).rows
        IN  /\ Len(table) = Len(events)
            /\ \A i \in 1..Len(table) :
                  /\ table[i].note_name = NoteNameOf(events[i])
                  /\ table[i].start_time = Round3(events[i].offset)
                  /\ table[i].duration = Round3(events[i].quarterLength)
                  /\ table[i].velocity = RowVelocity(events[i])

C8_Witness ==
    /\ last.op = "_midi_to_csv"
    /\ Succeeded
    /\ \E e \in Range(FileAt(last.pre, last.input).elements) : e.lyric # ""
    /\ Len(FileAt(fs, last.output).rows) >= 2

\* C9: the stream written by _csv_to_midi has one tempo mark, the tempo of
\* row 0, and none for an empty table; the tempo of the later rows changes
\* nothing: the output is that of the table with row 0's tempo on every row.
C9_TempoFromFirstRow ==
    (last.op = "_csv_to_midi" /\ Succeeded) =>
        LET table == FileAt(last.pre, last.input).rows
            same  == [i \in 1..Len(table) |-> [table[i] EXCEPT !.tempo = table[1].tempo]]
            out   == FileAt(fs, last.output)
        IN  /\ out.tempos = (IF table = <<>> THEN <<>> ELSE <<table[1].tempo>>)
            /\ out = FileAt(
                  _csv_to_midi(WriteFile(last.pre, last.input, CsvFile(same)),
                               last.input, last.output).fs, last.output)

C9_Witness ==
    /\ last.op = "_csv_to_midi"
    /\ Succeeded
    /\ LET table == FileAt(last.pre, last.input).rows
       IN  Len(table) >= 2 /\ table[2].tempo # table[1].tempo

(***************************************************************************)
(* Specification SpecCombine: _combine_midis over a list of paths into the *)
(* input directory, and combine_midis over the directory's listing.        *)
(***************************************************************************)
Rest(offset, quarterLength) ==
    [Note("C4", offset, quarterLength, None, "") EXCEPT !.cls = "Rest", !.pitches = <<>>]

\* Events spanning offsets 0 to 4.
StreamA == MidiFile(<<90>>, <<Note("C4", 0, 20000, 64, ""), Note("E-4", 20000, 20000, 64, "")>>)

\* Events spanning offsets 0 to 2.
StreamB == MidiFile(<<140>>, <<Note("G4", 0, 10000, 100, ""), Rest(10000, 5000),
                              Note("C4", 15000, 5000, 64, "")>>)

MidNames == {<<"a", ".mid">>, <<"b", ".mid">>, <<"c", ".mid">>}

FinalMid == PathJoin(DATA_OUTPUT_MIDI, <<"final_recreated_combined", ".mid">>)

\* The directories that hold some of the names, each with one of the contents.
DirsOf(names, contents) ==
    UNION {[present -> contents] : present \in SUBSET names}

InitCombine ==
    /\ element = NoElement
    /\ row = <<>>
    /\ rebuilt = <<>>
    /\ dirOrder \in ListingOrders
    /\ log = <<>>
    /\ last = NoCall
    /\ \E dir \in DirsOf(MidNames, {StreamA, StreamB, Corrupt}) :
          fs = [EmptyFs EXCEPT ![DATA_INPUT_MIDI[1]] = dir]

\* _combine_midis(midi_file_paths, output_midi_path), for any list of paths
CallCombineMidisList ==
    /\ last.calls = 0
    /\ \E midi_file_paths \in
            SeqsUpTo({PathJoin(DATA_INPUT_MIDI, n) : n \in MidNames}, 0, MaxPaths) :
          Returned(Call("_combine_midis", <<>>, FinalMid, FALSE, midi_file_paths),
                   _combine_midis(fs, midi_file_paths, FinalMid))

\* combine_midis(DATA_INPUT_MIDI, ".../final_recreated_combined.mid")
CallCombineMidis ==
    /\ last.calls = 0
    /\ Returned(Call("combine_midis", DATA_INPUT_MIDI, FinalMid, FALSE, <<>>),
                combine_midis(fs, DATA_INPUT_MIDI, FinalMid, dirOrder))

NextCombine == CallCombineMidisList \/ CallCombineMidis

SpecCombine == InitCombine /\ [][NextCombine]_vars

\* The paths of the list that decode, in the order of the list.
Decodable(fsys, paths) ==
    SelectSeq(paths, LAMBDA q : Exists(fsys, q) /\ FileAt(fsys, q).kind = "midi")

RECURSIVE TotalLen(_)
TotalLen(streams) ==
    IF streams = <<>> THEN 0 ELSE Len(Head(streams)) + TotalLen(Tail(streams))

\* The streams the last call decoded, in the order of its list, and where the
\* elements of the k-th of them lie in the combined stream.
Inputs == [k \in 1..Len(Decodable(last.pre, last.paths)) |->
              FileAt(last.pre, Decodable(last.pre, last.paths)[k]).elements]

Segment(out, k) ==
    SubSeq(out, TotalLen(SubSeq(Inputs, 1, k - 1)) + 1, TotalLen(SubSeq(Inputs, 1, k)))

\* C4: in the combined stream every event of a later stream starts at or after
\* the end of each earlier stream's extent, and the events of a stream keep
\* their relative order and spacing.
C4_LaterAfterEarlier ==
    (last.op = "_combine_midis" /\ Exists(fs, last.output)) =>
        LET out == FileAt(fs, last.output).elements
        IN  /\ Len(out) = TotalLen(Inputs)
            /\ \A a, b \in 1..Len(Inputs) : a < b =>
                  \A i \in 1..Len(Inputs[a]), j \in 1..Len(Inputs[b]) :
                     Segment(out, b)[j].offset >=
                        Segment(out, a)[i].offset + Segment(out, a)[i].quarterLength
            /\ \A b \in 1..Len(Inputs) : \A i, j \in 1..Len(Inputs[b]) :
                  /\ Segment(out, b)[i].pitches = Inputs[b][i].pitches
                  /\ Segment(out, b)[j].offset - Segment(out, b)[i].offset =
                        Inputs[b][j].offset - Inputs[b][i].offset

\* A (0 to 4) then B (0 to 2): B's events lie at 4 or later.
C4_Witness ==
    /\ last.op = "_combine_midis"
    /\ Len(Inputs) = 2
    /\ Inputs[1] = StreamA.elements
    /\ Inputs[2] = StreamB.elements
    /\ \A j \in 1..Len(StreamB.elements) :
          Segment(FileAt(fs, last.output).elements, 2)[j].offset >= 40000

AtZero(elems) == [i \in 1..Len(elems) |-> [elems[i] EXCEPT !.offset = 0]]

\* C5: _combine_midis skips exactly the files that fail to decode, logs each
\* of them, and writes a stream holding the decoded streams in the order of
\* the list, each of them whole and as often as the list names it.
C5_PartialSuccess ==
    (last.op = "_combine_midis") =>
        /\ [i \in 1..Len(Errors(Logged)) |-> Errors(Logged)[i].path] =
              SelectSeq(last.paths, LAMBDA q : q \notin Range(Decodable(last.pre, last.paths)))
        /\ \A i \in 1..Len(Errors(Logged)) :
              Errors(Logged)[i].msg = "Failed to process MIDI file"
        /\ Exists(fs, last.output)
        /\ FileAt(fs, last.output).kind = "midi"
        /\ AtZero(FileAt(fs, last.output).elements) = AtZero(ConcatRows(Inputs))
        /\ Len(Infos(Logged)) = 1

\* A list naming a file that fails between two that decode, one of them twice.
C5_Witness ==
    /\ last.op = "_combine_midis"
    /\ Len(last.paths) = 3
    /\ Len(Errors(Logged)) = 1
    /\ Errors(Logged)[1].path = last.paths[2]
    /\ last.paths[1] = last.paths[3]
    /\ Len(FileAt(fs, last.output).elements) = 2 * Len(Inputs[1])
    /\ Inputs[1] # <<>>

(***************************************************************************)
(* Specification SpecBatch: the directory-mode calls of the example usage, *)
(* midi_to_csv from the MIDI input directory to the CSV directory and      *)
(* csv_to_midi from the CSV directory to the MIDI output directory.  The   *)
(* output directories may hold files of earlier runs.                      *)
(***************************************************************************)
OldCsv == <<"old", ".csv">>

OldMid == <<"old", ".mid">>

\* A table that reads well and holds a pitch spelling no Pitch accepts.
BadCsv == CsvFile(<<Row(<<"C4">>, 0, 10000, 64, 90), Row(<<"H9">>, 10000, 10000, 64, 90)>>)

\* The input directory: each of a.mid, b.mid, c.mid absent, a stream or
\* undecodable.
InputDirs ==
    {[n \in present |-> IF n \in broken THEN Corrupt
                        ELSE IF n[1] = "b" THEN StreamB ELSE StreamA] :
        present \in SUBSET MidNames, broken \in SUBSET MidNames}

\* The CSV directory as earlier runs may have left it.
CsvDirs ==
    DirsOf({OldCsv, SongCsv}, {StaleCsv, BadCsv}) \cup {OneFile(OldCsv, Corrupt)}

InitBatch ==
    /\ element = NoElement
    /\ row = <<>>
    /\ rebuilt = <<>>
    /\ dirOrder \in ListingOrders
    /\ log = <<>>
    /\ last = NoCall
    /\ \E midis \in InputDirs,
          csvs \in CsvDirs,
          mids \in {EmptyDir, OneFile(OldMid, StaleMidi)} :
          fs = [d \in Dirs |->
                    IF d = DATA_INPUT_MIDI[1] THEN midis
                    ELSE IF d = DATA_OUTPUT_CSV[1] THEN csvs
                    ELSE mids]

\* midi_to_csv(DATA_INPUT_MIDI, DATA_OUTPUT_CSV, combine_output)
CallMidiToCsv ==
    /\ last.calls < MaxCalls
    /\ \E combine_output \in BOOLEAN :
          Returned(Call("midi_to_csv", DATA_INPUT_MIDI, DATA_OUTPUT_CSV,
                        combine_output, <<>>),
                   midi_to_csv(fs, DATA_INPUT_MIDI, DATA_OUTPUT_CSV,
                               combine_output, dirOrder))

\* csv_to_midi(DATA_OUTPUT_CSV, DATA_OUTPUT_MIDI, combine_output)
CallCsvToMidi ==
    /\ last.calls < MaxCalls
    /\ \E combine_output \in BOOLEAN :
          Returned(Call("csv_to_midi", DATA_OUTPUT_CSV, DATA_OUTPUT_MIDI,
                        combine_output, <<>>),
                   csv_to_midi(fs, DATA_OUTPUT_CSV, DATA_OUTPUT_MIDI,
                               combine_output, dirOrder))

NextBatch == CallMidiToCsv \/ CallCsvToMidi

SpecBatch == InitBatch /\ [][NextBatch]_vars

DirCall == last.op \in {"midi_to_csv", "csv_to_midi"}

InExt == IF last.op = "midi_to_csv" THEN ".mid" ELSE ".csv"

OutExt == IF last.op = "midi_to_csv" THEN ".csv" ELSE ".mid"

\* The input files of the last call: the names of its input directory that
\* match the extension.
InputNames == {n \in DOMAIN last.pre[last.input[1]] : EndsWith(n, InExt)}

InputAt(n) == FileAt(last.pre, PathJoin(last.input, n))

OutputOf(n) == PathJoin(last.output, Replace(n, InExt, OutExt))

CombinedPath == PathJoin(last.output, <<"combined", OutExt>>)

\* Whether the input file converts: it decodes and each of its events (rows)
\* can be serialized (deserialized).
Converts(n) ==
    IF last.op = "midi_to_csv"
    THEN /\ InputAt(n).kind = "midi"
         /\ \A e \in Range(InputAt(n).elements) :
               (e.lyric = "" /\ ~e.isStream) => e.cls # "GeneralNote"
    ELSE /\ InputAt(n).kind = "csv"
         /\ \A r \in Range(InputAt(n).rows) : ~_deserialize_row_to_element(r).raised

\* What the conversion of the input file writes.
Produced(n) ==
    IF last.op = "midi_to_csv"
    THEN CsvFile(EncodeElements(InputAt(n).elements, NoteTempo(InputAt(n).tempos), <<>>).rows)
    ELSE MidiFile(TempoMarks(InputAt(n).rows), DecodeRows(InputAt(n).rows, <<>>).elements)

DoneMsg ==
    IF last.op = "midi_to_csv" THEN "MIDI to CSV conversion complete"
    ELSE "CSV to MIDI conversion complete"

FailMsg ==
    IF last.op = "midi_to_csv" THEN "Failed to convert MIDI to CSV"
    ELSE "Failed to convert CSV to MIDI"

\* C2: a directory-mode call attempts every input file, leaves an output for
\* every input that converts, wherever it stands among the failing ones, logs
\* one error per failing file and returns to the caller without raising.
C2_BatchTolerant ==
    DirCall =>
        /\ ~last.raised
        /\ Len(SelectSeq(Logged, LAMBDA l : l.msg \in {DoneMsg, FailMsg}))
              = Cardinality(InputNames)
        /\ Len(SelectSeq(Logged, LAMBDA l : l.msg = FailMsg /\ l.level = "ERROR"))
              = Cardinality({n \in InputNames : ~Converts(n)})
        /\ \A n \in InputNames : Converts(n) =>
              /\ Exists(fs, OutputOf(n))
              /\ LogInfo(DoneMsg, OutputOf(n)) \in Range(Logged)
              /\ OutputOf(n) # CombinedPath => FileAt(fs, OutputOf(n)) = Produced(n)

\* Three input files of which the second listed fails and the others convert.
C2_Witness ==
    /\ last.op = "midi_to_csv"
    /\ LET listed == Listing(last.pre, last.input[1], InExt, dirOrder)
       IN  /\ Len(listed) = 3
           /\ Converts(listed[1]) /\ ~Converts(listed[2]) /\ Converts(listed[3])
           /\ Exists(fs, OutputOf(listed[1])) /\ Exists(fs, OutputOf(listed[3]))
           /\ ~Exists(fs, OutputOf(listed[2]))

Count(v, seq) == Cardinality({i \in 1..Len(seq) : seq[i] = v})

SameBag(x, y) ==
    /\ Len(x) = Len(y)
    /\ \A v \in Range(x) \cup Range(y) : Count(v, x) = Count(v, y)

\* The rows of a table file, or the events of a MIDI file without their
\* offsets.
Items(file) == IF file.kind = "csv" THEN file.rows ELSE AtZero(file.elements)

\* The items of everything the last call produced from its input files, in
\* the order of the listing.
ProducedItems ==
    LET listed == SelectSeq(Listing(last.pre, last.input[1], InExt, dirOrder),
                            LAMBDA n : Converts(n))
    IN  ConcatRows([i \in 1..Len(listed) |-> Items(Produced(listed[i]))])

CombinedMsg ==
    IF last.op = "midi_to_csv" THEN "Combined CSV file created"
    ELSE "Combined MIDI file created"

\* C3: with combine_output set and more than one input file, the combined
\* output holds what this call produced from its input files and nothing
\* else.
C3_CombinedFromThisCall ==
    (/\ DirCall
     /\ last.combine
     /\ Cardinality(InputNames) > 1
     /\ LogInfo(CombinedMsg, CombinedPath) \in Range(Logged)) =>
        SameBag(Items(FileAt(fs, CombinedPath)), ProducedItems)

\* C10: after two successive directory-mode calls with combine_output set,
\* the same input directory and the same output directory, the combined file
\* holds what it held after the first call.
C10_RepeatIdempotent ==
    (/\ DirCall
     /\ last.combine
     /\ last.prevOp = last.op
     /\ last.prevCombine
     /\ Exists(last.pre, CombinedPath)
     /\ LogInfo(CombinedMsg, CombinedPath) \in Range(Logged)) =>
        SameBag(Items(FileAt(fs, CombinedPath)), Items(FileAt(last.pre, CombinedPath)))

=============================================================================
